---------------------------- MODULE Spec2Model ----------------------------
(***************************************************************************)
(* A model of the Binance MCP server (src/src/index.ts) and of its         *)
(* exchange client (src/src/binance-api.ts).                               *)
(*                                                                         *)
(* The server is a process that reads two credentials from its             *)
(* environment, builds one BinanceAPI client and then answers call-tool    *)
(* requests.  A call-tool handler is an async function: it runs up to the  *)
(* HTTP request it awaits (CallTool), and is resumed by the response       *)
(* (HttpRespond) or by the failure (HttpFail) of that request.             *)
(* A list-tools request is answered at once (ListTools).  Spec serves one  *)
(* request at a time over a wide domain of arguments; ConcSpec serves      *)
(* overlapping requests over a narrow one; SigSpec applies                 *)
(* generateSignature to parameter mappings.                                *)
(***************************************************************************)
EXTENDS Integers, Sequences, FiniteSets, TLC

VARIABLES
    phase,       \* "boot", "running" or "failed": where the process is
    apiKey,      \* BinanceAPI.apiKey (the environment's value before the start)
    apiSecret,   \* BinanceAPI.apiSecret
    inv,         \* the invocation of the call-tool handler, per slot
    twin,        \* the same invocations in a run that differs in the secret only
    listed,      \* the list-tools response a slot holds (<<>> when it holds none)
    signLog      \* the generateSignature calls observed (signature specification)

vars == <<phase, apiKey, apiSecret, inv, twin, listed, signLog>>

----------------------------------------------------------------------------
(* Bounds of the model.                                                    *)

\* The longest argument mapping a caller supplies.
MaxArgs == 2
\* The clock readings Date.now() can return are 1..MaxTime.
MaxTime == 2
\* The number of generateSignature calls the signature specification records.
MaxSigned == 2
\* The requests the concurrent specification has in flight at once.
MaxSlots == 2

----------------------------------------------------------------------------
(* JavaScript values: undefined, null, numbers, strings, arrays and        *)
(* objects.  An object is the sequence of its [k, v] properties in         *)
(* insertion order.                                                        *)

Undef == [t |-> "undefined"]
Null == [t |-> "null"]
Num(n) == [t |-> "number", n |-> n]
Str(s) == [t |-> "string", s |-> s]
Arr(a) == [t |-> "array", a |-> a]
Obj(o) == [t |-> "object", o |-> o]
KV(key, val) == [k |-> key, v |-> val]

\* The boolean coercion of `if (x)` and of `x ? a : b`.
Truthy(x) ==
    CASE x.t = "undefined" -> FALSE
      [] x.t = "null" -> FALSE
      [] x.t = "number" -> x.n # 0
      [] x.t = "string" -> x.s # ""
      [] OTHER -> TRUE

\* The string a template literal `${x}` produces for a scalar.
ToStr(x) ==
    CASE x.t = "undefined" -> "undefined"
      [] x.t = "null" -> "null"
      [] x.t = "number" -> ToString(x.n)
      [] x.t = "string" -> x.s
      [] x.t = "array" -> "[array]"
      [] OTHER -> "[object Object]"

Keys(o) == {o[j].k : j \in 1..Len(o)}
HasKey(o, key) == key \in Keys(o)
IndexOf(o, key) == CHOOSE j \in 1..Len(o) : o[j].k = key

\* o[key]: the property's value, undefined when the object has no such key.
Get(o, key) == IF HasKey(o, key) THEN o[IndexOf(o, key)].v ELSE Undef

\* o[key] = val: an existing key keeps its place, a new key is added last.
Set(o, key, val) ==
    IF HasKey(o, key)
    THEN [o EXCEPT ![IndexOf(o, key)] = KV(key, val)]
    ELSE Append(o, KV(key, val))

\* { ...x }: the own properties of an object; nothing for undefined or null.
Spread(x) == IF x.t = "object" THEN x.o ELSE <<>>

\* Mutant of SetIf: the key is set whether or not the value was given.
SetIf_Always(o, cond, key, val) == Set(o, key, val)

\* if (cond) params[key] = val
SetIf(o, cond, key, val) == IF cond THEN Set(o, key, val) ELSE o

----------------------------------------------------------------------------
(* The exchange client, class BinanceAPI.  `self` is the client object:    *)
(* [apiKey, apiSecret].  `now` is the value Date.now() returns in the      *)
(* call.  Every method is modelled up to the HTTP request it awaits and    *)
(* yields that request; what it does with the response is in Reshape.      *)

baseUrl == "https://api.binance.com"

\* crypto.HmacSHA256(message, key).toString(): the digest, kept as a term
\* of its two inputs (the HMAC taken as collision-free).
HmacSHA256(message, key) == "hmac-sha256{" \o key \o "}(" \o message \o ")"

\* Object.keys(params).map(key => `${key}=${params[key]}`).join('&')
RECURSIVE JoinPairs(_)
JoinPairs(o) ==
    IF Len(o) = 0 THEN ""
    ELSE LET pair == o[1].k \o "=" \o ToStr(o[1].v)
         IN  IF Len(o) = 1 THEN pair ELSE pair \o "&" \o JoinPairs(Tail(o))

\* Mutant of queryString: only the first pair is serialized.
queryString_FirstPair(params) ==
    IF Len(params) = 0 THEN "" ELSE JoinPairs(<<params[1]>>)

queryString(params) == JoinPairs(params)

\* Mutant of generateSignature: the hasher keeps what earlier calls fed it.
generateSignature_Stateful(self, params) ==
    Str(HmacSHA256(ToString(Len(signLog)) \o queryString(params), ToStr(self.apiSecret)))

generateSignature(self, params) ==
    Str(HmacSHA256(queryString(params), ToStr(self.apiSecret)))

\* Mutant of Request: the header is filled from the secret.
Request_SecretHeader(self, method, path, params, signed) ==
    [method |-> method, baseURL |-> baseUrl, path |-> path, params |-> params,
     headers |-> <<KV("X-MBX-APIKEY", self.apiSecret)>>, signed |-> signed]

\* A request through the axios instance the constructor creates: the base
\* URL and the X-MBX-APIKEY header are the instance's, `signed` is the
\* string the signature was taken of (undefined for an unsigned request).
Request(self, method, path, params, signed) ==
    [method |-> method, baseURL |-> baseUrl, path |-> path, params |-> params,
     headers |-> <<KV("X-MBX-APIKEY", self.apiKey)>>, signed |-> signed]

Public(self, path, params) == Request(self, "GET", path, params, Undef)

\* Mutant of Signed: the signature is computed and not sent.
Signed_NoSignature(self, method, path, params) ==
    Request(self, method, path, params, Str(queryString(params)))

\* const signature = this.generateSignature(params);
\* this.client.<method>(path, { params: { ...params, signature } })
Signed(self, method, path, params) ==
    Request(self, method, path,
            Set(params, "signature", generateSignature(self, params)),
            Str(queryString(params)))

getPrice(self, symbol) ==
    Public(self, "/api/v3/ticker/price",
           IF Truthy(symbol) THEN <<KV("symbol", symbol)>> ELSE <<>>)

get24hrTicker(self, symbol) ==
    Public(self, "/api/v3/ticker/24hr",
           IF Truthy(symbol) THEN <<KV("symbol", symbol)>> ELSE <<>>)

getKlines(self, symbol, interval, limit, startTime, endTime) ==
    LET p0 == <<KV("symbol", symbol), KV("interval", interval)>>
        p1 == SetIf(p0, Truthy(limit), "limit", limit)
        p2 == SetIf(p1, Truthy(startTime), "startTime", startTime)
        p3 == SetIf(p2, Truthy(endTime), "endTime", endTime)
    IN  Public(self, "/api/v3/klines", p3)

getOrderBook(self, symbol, limit) ==
    Public(self, "/api/v3/depth",
           SetIf(<<KV("symbol", symbol)>>, Truthy(limit), "limit", limit))

getRecentTrades(self, symbol, limit) ==
    Public(self, "/api/v3/trades",
           SetIf(<<KV("symbol", symbol)>>, Truthy(limit), "limit", limit))

getAccountInfo(self, now) ==
    Signed(self, "GET", "/api/v3/account", <<KV("timestamp", now)>>)

getMyTrades(self, params, now) ==
    Signed(self, "GET", "/api/v3/myTrades",
           Set(Spread(params), "timestamp", now))

\* Mutant of getOpenOrders: the symbol is inserted before the timestamp.
getOpenOrders_SymbolFirst(self, symbol, now) ==
    Signed(self, "GET", "/api/v3/openOrders",
           Set(IF Truthy(symbol) THEN <<KV("symbol", symbol)>> ELSE <<>>,
               "timestamp", now))

getOpenOrders(self, symbol, now) ==
    Signed(self, "GET", "/api/v3/openOrders",
           SetIf(<<KV("timestamp", now)>>, Truthy(symbol), "symbol", symbol))

getAllOrders(self, symbol, orderId, startTime, endTime, limit, now) ==
    LET p0 == <<KV("symbol", symbol), KV("timestamp", now)>>
        p1 == SetIf(p0, Truthy(orderId), "orderId", orderId)
        p2 == SetIf(p1, Truthy(startTime), "startTime", startTime)
        p3 == SetIf(p2, Truthy(endTime), "endTime", endTime)
        p4 == SetIf(p3, Truthy(limit), "limit", limit)
    IN  Signed(self, "GET", "/api/v3/allOrders", p4)

placeOrder(self, orderParams, now) ==
    Signed(self, "POST", "/api/v3/order",
           Set(Spread(orderParams), "timestamp", now))

\* Mutant of cancelOrder: an order named by its orderId is cancelled, any
\* other one is looked up.
cancelOrder_GetWithoutId(self, params, now) ==
    Signed(self, IF HasKey(Spread(params), "orderId") THEN "DELETE" ELSE "GET",
           "/api/v3/order", Set(Spread(params), "timestamp", now))

cancelOrder(self, params, now) ==
    Signed(self, "DELETE", "/api/v3/order",
           Set(Spread(params), "timestamp", now))

cancelAllOrders(self, symbol, now) ==
    Signed(self, "DELETE", "/api/v3/openOrders",
           <<KV("symbol", symbol), KV("timestamp", now)>>)

getOrder(self, symbol, orderId, clientOrderId, now) ==
    LET p0 == <<KV("symbol", symbol), KV("timestamp", now)>>
        p1 == SetIf(p0, Truthy(orderId), "orderId", orderId)
        p2 == SetIf(p1, Truthy(clientOrderId), "clientOrderId", clientOrderId)
    IN  Signed(self, "GET", "/api/v3/order", p2)

getDepositAddress(self, params, now) ==
    Signed(self, "GET", "/sapi/v1/capital/deposit/address",
           Set(Spread(params), "timestamp", now))

\* The parameters of getDepositHistory and of getWithdrawHistory.
HistoryParams(coin, status, startTime, endTime, offset, limit, now) ==
    LET p0 == <<KV("timestamp", now)>>
        p1 == SetIf(p0, Truthy(coin), "coin", coin)
        p2 == SetIf(p1, status # Undef, "status", status)
        p3 == SetIf(p2, Truthy(startTime), "startTime", startTime)
        p4 == SetIf(p3, Truthy(endTime), "endTime", endTime)
        p5 == SetIf(p4, Truthy(offset), "offset", offset)
    IN  SetIf(p5, Truthy(limit), "limit", limit)

getDepositHistory(self, coin, status, startTime, endTime, offset, limit, now) ==
    Signed(self, "GET", "/sapi/v1/capital/deposit/hisrec",
           HistoryParams(coin, status, startTime, endTime, offset, limit, now))

getWithdrawHistory(self, coin, status, startTime, endTime, offset, limit, now) ==
    Signed(self, "GET", "/sapi/v1/capital/withdraw/history",
           HistoryParams(coin, status, startTime, endTime, offset, limit, now))

\* Mutant of withdraw: { timestamp, ...params }, a timestamp of the caller
\* replaces the clock reading.
withdraw_CallerTimestamp(self, params, now) ==
    Signed(self, "POST", "/sapi/v1/capital/withdraw/apply",
           SetIf(Spread(params), ~HasKey(Spread(params), "timestamp"), "timestamp", now))

withdraw(self, params, now) ==
    Signed(self, "POST", "/sapi/v1/capital/withdraw/apply",
           Set(Spread(params), "timestamp", now))

----------------------------------------------------------------------------
(* What a client method does with the response it awaited, and             *)
(* JSON.stringify(value, null, 2).                                         *)

\* x[j] of an array (j counted from 0): undefined past its end.
At(x, j) == IF x.t = "array" /\ j + 1 <= Len(x.a) THEN x.a[j + 1] ELSE Undef

\* Reading a property or an index of undefined or null throws a TypeError.
Nullish(x) == x.t \in {"undefined", "null"}

TypeError(message) == [name |-> "TypeError", message |-> message]

\* Mutant of MapKline: high and low are read from each other's position.
MapKline_HighLowSwapped(kline) ==
    Obj(<<KV("openTime", At(kline, 0)), KV("open", At(kline, 1)),
          KV("high", At(kline, 3)), KV("low", At(kline, 2)),
          KV("close", At(kline, 4)), KV("volume", At(kline, 5)),
          KV("closeTime", At(kline, 6)), KV("quoteAssetVolume", At(kline, 7)),
          KV("numberOfTrades", At(kline, 8)),
          KV("takerBuyBaseAssetVolume", At(kline, 9)),
          KV("takerBuyQuoteAssetVolume", At(kline, 10))>>)

\* getKlines: the record one element of the response is mapped to.
MapKline(kline) ==
    Obj(<<KV("openTime", At(kline, 0)), KV("open", At(kline, 1)),
          KV("high", At(kline, 2)), KV("low", At(kline, 3)),
          KV("close", At(kline, 4)), KV("volume", At(kline, 5)),
          KV("closeTime", At(kline, 6)), KV("quoteAssetVolume", At(kline, 7)),
          KV("numberOfTrades", At(kline, 8)),
          KV("takerBuyBaseAssetVolume", At(kline, 9)),
          KV("takerBuyQuoteAssetVolume", At(kline, 10))>>)

\* Mutant of MapLevel: price and quantity are read from each other's place.
MapLevel_Swapped(level) == Obj(<<KV("price", At(level, 1)), KV("quantity", At(level, 0))>>)

\* getOrderBook: the record one [price, quantity] entry is mapped to.
MapLevel(level) == Obj(<<KV("price", At(level, 0)), KV("quantity", At(level, 1))>>)

\* Mutant of Reshape: the method returns the response, not its data.
Reshape_WholeResponse(name, data) ==
    [ok |-> TRUE, value |-> Obj(<<KV("status", Num(200)), KV("data", data)>>)]

\* The value a client method returns for the response body `data`, or the
\* error its reshaping throws: [ok |-> TRUE, value] or [ok |-> FALSE, error].
Reshape(name, data) ==
    CASE name = "get_klines" ->
           IF data.t # "array"
           THEN [ok |-> FALSE, error |-> TypeError("response.data.map is not a function")]
           ELSE IF \E j \in 1..Len(data.a) : Nullish(data.a[j])
           THEN [ok |-> FALSE, error |-> TypeError("Cannot read properties of null (reading '0')")]
           ELSE [ok |-> TRUE,
                 value |-> Arr([j \in 1..Len(data.a) |-> MapKline(data.a[j])])]
      [] name = "get_order_book" ->
           IF Nullish(data)
           THEN [ok |-> FALSE, error |-> TypeError("Cannot read properties of null (reading 'lastUpdateId')")]
           ELSE LET o == Spread(data)
                    bids == Get(o, "bids")
                    asks == Get(o, "asks")
                IN  IF bids.t # "array" \/ asks.t # "array"
                    THEN [ok |-> FALSE, error |-> TypeError("Cannot read properties of undefined (reading 'map')")]
                    ELSE IF \/ \E j \in 1..Len(bids.a) : Nullish(bids.a[j])
                            \/ \E j \in 1..Len(asks.a) : Nullish(asks.a[j])
                    THEN [ok |-> FALSE, error |-> TypeError("Cannot read properties of null (reading '0')")]
                    ELSE [ok |-> TRUE,
                          value |-> Obj(<<
                              KV("lastUpdateId", Get(o, "lastUpdateId")),
                              KV("bids", Arr([j \in 1..Len(bids.a) |-> MapLevel(bids.a[j])])),
                              KV("asks", Arr([j \in 1..Len(asks.a) |-> MapLevel(asks.a[j])]))>>)]
      [] OTHER -> [ok |-> TRUE, value |-> data]

Quote(s) == "\"" \o s \o "\""

\* JSON.stringify(x, null, 2) at indentation `ind`: a property whose value
\* is undefined is left out of an object, and undefined in an array is null.
RECURSIVE Stringify(_, _), StringifyItems(_, _), StringifyProps(_, _)
Stringify(x, ind) ==
    CASE x.t = "number" -> ToString(x.n)
      [] x.t = "string" -> Quote(x.s)
      [] x.t = "array" ->
           IF Len(x.a) = 0 THEN "[]"
           ELSE "[\n" \o StringifyItems(x.a, ind \o "  ") \o "\n" \o ind \o "]"
      [] x.t = "object" ->
           LET props == SelectSeq(x.o, LAMBDA p : p.v.t # "undefined")
           IN  IF Len(props) = 0 THEN "{}"
               ELSE "{\n" \o StringifyProps(props, ind \o "  ") \o "\n" \o ind \o "}"
      [] OTHER -> "null"

StringifyItems(a, ind) ==
    LET item == ind \o Stringify(a[1], ind)
    IN  IF Len(a) = 1 THEN item ELSE item \o ",\n" \o StringifyItems(Tail(a), ind)

StringifyProps(o, ind) ==
    LET prop == ind \o Quote(o[1].k) \o ": " \o Stringify(o[1].v, ind)
    IN  IF Len(o) = 1 THEN prop ELSE prop \o ",\n" \o StringifyProps(Tail(o), ind)

----------------------------------------------------------------------------
(* The call-tool handler of BinanceServer.setupToolHandlers.  An           *)
(* invocation is a record: pc ("idle", "awaiting" the HTTP response, or    *)
(* "done"), the request's name and arguments, the clock reading, the HTTP  *)
(* requests it has issued, the response body it was resumed with, the      *)
(* errors its catch has received, the results it has returned, the errors  *)
(* it has let through to the transport, and the failure that happened in   *)
(* it.                                                                     *)

Idle ==
    [pc |-> "idle", name |-> "", args |-> Undef, now |-> Undef, reqs |-> <<>>,
     resp |-> Undef, caught |-> <<>>, results |-> <<>>, thrown |-> <<>>,
     failure |-> "none"]

MethodNotFound == -32601

\* new McpError(code, message): the SDK's error, whose message is prefixed
\* with the code.
McpError(code, message) ==
    [name |-> "McpError",
     message |-> "MCP error " \o ToString(code) \o ": " \o message]

Tools ==
    {"get_price", "get_24hr_ticker", "get_klines", "get_order_book",
     "get_recent_trades", "get_account", "get_my_trades", "get_open_orders",
     "get_all_orders", "place_order", "cancel_order", "cancel_all_orders",
     "get_order", "get_deposit_address", "get_deposit_history",
     "get_withdraw_history", "withdraw"}

\* The cases that destructure request.params.arguments, with the first
\* property of the pattern; the other cases pass the arguments on (or, for
\* get_account, do not read them).
FirstProperty(name) ==
    CASE name \in {"get_deposit_history", "get_withdraw_history"} -> "coin"
      [] name \in {"get_account", "get_my_trades", "place_order", "cancel_order",
                   "get_deposit_address", "withdraw"} -> ""
      [] OTHER -> "symbol"

Destructures(name) == FirstProperty(name) # ""

\* The request of the client method the case of `name` calls.
ClientCall(self, name, args, now) ==
    LET a == Spread(args)
    IN  CASE name = "get_price" -> getPrice(self, Get(a, "symbol"))
          [] name = "get_24hr_ticker" -> get24hrTicker(self, Get(a, "symbol"))
          [] name = "get_klines" ->
               getKlines(self, Get(a, "symbol"), Get(a, "interval"), Get(a, "limit"),
                         Get(a, "startTime"), Get(a, "endTime"))
          [] name = "get_order_book" -> getOrderBook(self, Get(a, "symbol"), Get(a, "limit"))
          [] name = "get_recent_trades" -> getRecentTrades(self, Get(a, "symbol"), Get(a, "limit"))
          [] name = "get_account" -> getAccountInfo(self, now)
          [] name = "get_my_trades" -> getMyTrades(self, args, now)
          [] name = "get_open_orders" -> getOpenOrders(self, Get(a, "symbol"), now)
          [] name = "get_all_orders" ->
               getAllOrders(self, Get(a, "symbol"), Get(a, "orderId"), Get(a, "startTime"),
                            Get(a, "endTime"), Get(a, "limit"), now)
          [] name = "place_order" -> placeOrder(self, args, now)
          [] name = "cancel_order" -> cancelOrder(self, args, now)
          [] name = "cancel_all_orders" -> cancelAllOrders(self, Get(a, "symbol"), now)
          [] name = "get_order" ->
               getOrder(self, Get(a, "symbol"), Get(a, "orderId"), Get(a, "clientOrderId"), now)
          [] name = "get_deposit_address" -> getDepositAddress(self, args, now)
          [] name = "get_deposit_history" ->
               getDepositHistory(self, Get(a, "coin"), Get(a, "status"), Get(a, "startTime"),
                                 Get(a, "endTime"), Get(a, "offset"), Get(a, "limit"), now)
          [] name = "get_withdraw_history" ->
               getWithdrawHistory(self, Get(a, "coin"), Get(a, "status"), Get(a, "startTime"),
                                  Get(a, "endTime"), Get(a, "offset"), Get(a, "limit"), now)
          [] name = "withdraw" -> withdraw(self, args, now)

\* Mutant of Success: the value is put in the text by a template literal.
Success_NotSerialized(value) ==
    [content |-> <<[type |-> "text", text |-> ToStr(value)]>>]

\* return { content: [{ type: 'text', text: JSON.stringify(value, null, 2) }] }
Success(value) ==
    [content |-> <<[type |-> "text", text |-> Stringify(value, "")]>>]

\* Mutant of Catch: the message of the error is not read.
Catch_DropsMessage(error) ==
    [returned |-> TRUE,
     result |-> [content |-> <<[type |-> "text", text |-> "Error: Unknown error"]>>,
                 isError |-> TRUE]]

\* Mutant of Catch: only an McpError is caught, any other error goes on.
Catch_OnlyMcpError(error) ==
    [returned |-> error.name = "McpError",
     result |-> [content |-> <<[type |-> "text", text |-> "Error: " \o error.message]>>,
                 isError |-> TRUE]]

\* The handler's catch: the error becomes an error-flagged result.
Catch(error) ==
    [returned |-> TRUE,
     result |-> [content |-> <<[type |-> "text",
                                text |-> "Error: " \o (IF error.message # ""
                                                       THEN error.message
                                                       ELSE "Unknown error")]>>,
                 isError |-> TRUE]]

\* The invocation `rec` ends with what the catch made of `error`.
Caught(rec, error, failure) ==
    LET c == Catch(error)
    IN  [rec EXCEPT !.pc = "done", !.failure = failure,
                    !.caught = Append(@, error),
                    !.results = IF c.returned THEN Append(@, c.result) ELSE @,
                    !.thrown = IF c.returned THEN @ ELSE Append(@, error)]

\* Mutant of HandlerStart: a case that destructures the arguments throws
\* when the first property of its pattern is not among them.
HandlerStart_ChecksFirstProperty(self, name, args, now) ==
    LET rec == [Idle EXCEPT !.name = name, !.args = args, !.now = now]
    IN  IF name \notin Tools
        THEN Caught(rec, McpError(MethodNotFound, "Unknown tool: " \o name), "unknown")
        ELSE IF Destructures(name) /\ ~HasKey(Spread(args), FirstProperty(name))
        THEN Caught(rec, TypeError(FirstProperty(name) \o " is required"), "destructure")
        ELSE [rec EXCEPT !.pc = "awaiting",
                         !.reqs = Append(@, ClientCall(self, name, args, now))]

\* Mutant of HandlerStart: the arguments are kept in a member of the server
\* that the invocations in flight share, and the request is built from it.
HandlerStart_SharedArguments(self, name, args, now) ==
    LET rec == [Idle EXCEPT !.name = name, !.args = args, !.now = now]
        busy == {k \in DOMAIN inv : inv[k].pc = "awaiting"}
        shared == IF busy = {} THEN args ELSE inv[CHOOSE k \in busy : TRUE].args
    IN  [rec EXCEPT !.pc = "awaiting",
                    !.reqs = Append(@, ClientCall(self, name, shared, now))]

\* The handler from its entry to its first await.
HandlerStart(self, name, args, now) ==
    LET rec == [Idle EXCEPT !.name = name, !.args = args, !.now = now]
    IN  IF name \notin Tools
        THEN Caught(rec, McpError(MethodNotFound, "Unknown tool: " \o name), "unknown")
        ELSE IF Destructures(name) /\ Nullish(args)
        THEN Caught(rec,
                    TypeError("Cannot destructure property '" \o FirstProperty(name)
                              \o "' of 'request.params.arguments' as it is undefined."),
                    "destructure")
        ELSE [rec EXCEPT !.pc = "awaiting",
                         !.reqs = Append(@, ClientCall(self, name, args, now))]

\* Mutant of HandlerResponse: the body is kept and the handler awaits again.
HandlerResponse_StaysAwaiting(rec, data) == [rec EXCEPT !.resp = data]

\* The handler resumed by the response to its request.
HandlerResponse(rec, data) ==
    LET r == Reshape(rec.name, data)
        got == [rec EXCEPT !.resp = data]
    IN  IF r.ok
        THEN [got EXCEPT !.pc = "done", !.results = Append(@, Success(r.value))]
        ELSE Caught(got, r.error, "reshape")

\* Mutant of HandlerFailure: the failed request is issued once more.
HandlerFailure_Retry(rec, error) ==
    [rec EXCEPT !.failure = "http", !.reqs = Append(@, @[1])]

\* Mutant of HandlerFailure: the client method throws an error of its own.
HandlerFailure_Wraps(rec, error) ==
    Caught(rec, [name |-> "Error", message |-> "Request to Binance failed"], "http")

\* The handler resumed by the failure of its request: the client method's
\* catch logs the error and throws it again.
HandlerFailure(rec, error) == Caught(rec, error, "http")

----------------------------------------------------------------------------
(* The input schemas of the tool listing: the properties each tool         *)
(* declares and those it requires.                                         *)

Properties(name) ==
    CASE name \in {"get_price", "get_24hr_ticker", "get_open_orders",
                   "cancel_all_orders"} -> {"symbol"}
      [] name = "get_klines" -> {"symbol", "interval", "limit", "startTime", "endTime"}
      [] name \in {"get_order_book", "get_recent_trades"} -> {"symbol", "limit"}
      [] name = "get_account" -> {}
      [] name = "get_my_trades" ->
           {"symbol", "orderId", "startTime", "endTime", "fromId", "limit"}
      [] name = "get_all_orders" -> {"symbol", "orderId", "startTime", "endTime", "limit"}
      [] name = "place_order" ->
           {"symbol", "side", "type", "quantity", "price", "timeInForce",
            "newClientOrderId", "stopPrice", "icebergQty", "newOrderRespType"}
      [] name \in {"cancel_order", "get_order"} -> {"symbol", "orderId", "clientOrderId"}
      [] name = "get_deposit_address" -> {"coin", "network"}
      [] name \in {"get_deposit_history", "get_withdraw_history"} ->
           {"coin", "status", "startTime", "endTime", "offset", "limit"}
      [] name = "withdraw" -> {"coin", "address", "amount", "network", "name", "addressTag"}
      [] OTHER -> {}

Required(name) ==
    CASE name \in {"get_price", "get_order_book", "get_recent_trades", "get_my_trades",
                   "get_all_orders", "cancel_order", "cancel_all_orders",
                   "get_order"} -> {"symbol"}
      [] name = "get_klines" -> {"symbol", "interval"}
      [] name = "place_order" -> {"symbol", "side", "type", "quantity"}
      [] name = "get_deposit_address" -> {"coin"}
      [] name = "withdraw" -> {"coin", "address", "amount"}
      [] OTHER -> {}

Optional(name) == Properties(name) \ Required(name)

MarketTools ==
    {"get_price", "get_24hr_ticker", "get_klines", "get_order_book", "get_recent_trades"}
PrivateTools == Tools \ MarketTools

\* One entry of the listing: { name, description, inputSchema }.
Descriptor(name, description) ==
    [name |-> name, description |-> description,
     inputSchema |-> [type |-> "object", properties |-> Properties(name),
                      required |-> Required(name)]]

\* The tools array of the list-tools handler, in the order of the source.
Descriptors ==
    <<Descriptor("get_price", "Get the current price of a cryptocurrency"),
      Descriptor("get_24hr_ticker", "Get 24hr ticker price change statistics"),
      Descriptor("get_klines", "Get candlestick data (klines)"),
      Descriptor("get_order_book", "Get order book for a symbol"),
      Descriptor("get_recent_trades", "Get recent trades for a symbol"),
      Descriptor("get_account", "Get account information including balances"),
      Descriptor("get_my_trades", "Get trades for a specific symbol"),
      Descriptor("get_open_orders", "Get current open orders for a symbol or all symbols"),
      Descriptor("get_all_orders", "Get all orders for a symbol (active, canceled, or filled)"),
      Descriptor("place_order", "Place a buy or sell order"),
      Descriptor("cancel_order", "Cancel an active order"),
      Descriptor("cancel_all_orders", "Cancel all open orders on a symbol"),
      Descriptor("get_order", "Check an order's status"),
      Descriptor("get_deposit_address", "Get deposit address for a coin"),
      Descriptor("get_deposit_history", "Get deposit history"),
      Descriptor("get_withdraw_history", "Get withdrawal history"),
      Descriptor("withdraw", "Submit a withdrawal request")>>

\* Mutant of ListToolsResult: the last tool added is dispatched and not listed.
ListToolsResult_NoWithdraw == [tools |-> SubSeq(Descriptors, 1, Len(Descriptors) - 1)]

\* The list-tools handler: async () => ({ tools: [...] }).
ListToolsResult == [tools |-> Descriptors]

\* The committed build of the server (an earlier index.js): the names and
\* descriptions its list-tools handler returns, and the cases of its switch.
BuiltDescriptors ==
    <<[name |-> "get_price", description |-> "Get the current price of a cryptocurrency"],
      [name |-> "get_account", description |-> "Get account information including balances"],
      [name |-> "place_order", description |-> "Place a buy or sell order"]>>
BuiltTools == {"get_price", "get_account", "place_order"}

----------------------------------------------------------------------------
(* The inputs of the model: the environment, the callers' requests, the    *)
(* clock and the exchange's answers.                                       *)

\* process.env.BINANCE_API_KEY and BINANCE_API_SECRET: unset, empty or set.
EnvKeys == {Undef, Str(""), Str("key-1")}
EnvSecrets == {Undef, Str(""), Str("secret-1")}
\* The secret of the run the twin invocations belong to.
TwinSecret == Str("secret-2")

Names == Tools \cup {"get_balance", "GET_PRICE"}

ArgKeys == {"symbol", "limit", "status", "timestamp", "signature"}
ArgValues == {Null, Num(0), Num(7), Str("BTCUSDT")}
ArgPairs == {KV(key, val) : key \in ArgKeys, val \in ArgValues}

\* The objects of at most n properties, their keys distinct.
ObjectsUpTo(pairs, n) ==
    {o \in UNION {[1..m -> pairs] : m \in 0..n} :
        \A j1, j2 \in 1..Len(o) : o[j1].k = o[j2].k => j1 = j2}

\* request.params.arguments: absent, or an object.
Arguments == {Undef} \cup {Obj(o) : o \in ObjectsUpTo(ArgPairs, MaxArgs)}

Times == {Num(t) : t \in 1..MaxTime}

KlineRow ==
    Arr(<<Num(100), Str("1"), Str("2"), Str("3"), Str("4"), Str("5"),
          Num(106), Str("7"), Num(8), Str("9"), Str("10")>>)
KlineRow2 ==
    Arr(<<Num(200), Str("11"), Str("12"), Str("13"), Str("14"), Str("15"),
          Num(206), Str("17"), Num(18), Str("19"), Str("20")>>)
ErrorBody == Obj(<<KV("code", Num(-1121)), KV("msg", Str("Invalid symbol."))>>)
Book ==
    Obj(<<KV("lastUpdateId", Num(42)),
          KV("bids", Arr(<<Arr(<<Str("50145.00"), Str("2.5")>>)>>)),
          KV("asks", Arr(<<Arr(<<Str("50150.00"), Str("1.2")>>),
                           Arr(<<Str("50155.00"), Str("0.7")>>)>>))>>)
Price == Obj(<<KV("symbol", Str("BTCUSDT")), KV("price", Str("50000.00"))>>)

\* The bodies the exchange answers a request of tool `name` with.
Responses(name) ==
    CASE name = "get_klines" ->
           {Arr(<<>>), Arr(<<KlineRow, KlineRow2>>), Arr(<<Null>>), ErrorBody}
      [] name = "get_order_book" -> {Book, ErrorBody, Null}
      [] OTHER -> {Price, Arr(<<>>)}

\* The errors axios rejects a request with: a non-2xx status, a transport
\* failure, an error without a message.
HttpErrors ==
    {[name |-> "AxiosError", message |-> "Request failed with status code 400"],
     [name |-> "AxiosError", message |-> "Network Error"],
     [name |-> "Error", message |-> ""]}

----------------------------------------------------------------------------
(* The server process.                                                     *)

\* The client object the constructor builds from the credentials.
BinanceAPI(key, secret) == [apiKey |-> key, apiSecret |-> secret]

Self == BinanceAPI(apiKey, apiSecret)
TwinSelf == BinanceAPI(apiKey, TwinSecret)

Init ==
    /\ phase = "boot"
    /\ apiKey \in EnvKeys
    /\ apiSecret \in EnvSecrets
    /\ inv = [i \in {1} |-> Idle]
    /\ twin = [i \in {1} |-> Idle]
    /\ listed = [i \in {1} |-> <<>>]
    /\ signLog = <<>>

\* Mutant of CredentialsOk: only the key is looked at.
CredentialsOk_KeyOnly(key, secret) == Truthy(key)

\* if (!API_KEY || !API_SECRET) throw ...; otherwise new BinanceServer().
CredentialsOk(key, secret) == Truthy(key) /\ Truthy(secret)

Startup ==
    /\ phase = "boot"
    /\ phase' = IF CredentialsOk(apiKey, apiSecret) THEN "running" ELSE "failed"
    /\ UNCHANGED <<apiKey, apiSecret, inv, twin, listed, signLog>>

\* Slot i holds no request.
Free(i) == inv[i].pc = "idle" /\ listed[i] = <<>>

\* A list-tools request arrives and its handler returns the listing.
ListTools(i) ==
    /\ phase = "running"
    /\ Free(i)
    /\ listed' = [listed EXCEPT ![i] = <<ListToolsResult>>]
    /\ UNCHANGED <<phase, apiKey, apiSecret, inv, twin, signLog>>

\* A call-tool request (name, args), drawn from `names` and `arguments`,
\* arrives while the clock reads `now`, and its handler runs to its first
\* await.
Invoke(i, names, arguments) ==
    /\ phase = "running"
    /\ Free(i)
    /\ \E name \in names, args \in arguments, now \in Times :
          /\ inv' = [inv EXCEPT ![i] = HandlerStart(Self, name, args, now)]
          /\ twin' = [twin EXCEPT ![i] = HandlerStart(TwinSelf, name, args, now)]
    /\ UNCHANGED <<phase, apiKey, apiSecret, listed, signLog>>

CallTool(i) == Invoke(i, Names, Arguments)

\* The exchange answers the request of invocation i with a 2xx body.
HttpRespond(i, data) ==
    /\ inv[i].pc = "awaiting"
    /\ inv' = [inv EXCEPT ![i] = HandlerResponse(@, data)]
    /\ twin' = [twin EXCEPT ![i] = HandlerResponse(@, data)]
    /\ UNCHANGED <<phase, apiKey, apiSecret, listed, signLog>>

\* Mutant of HttpFail: the rejection is not handled and the process exits.
HttpFail_Exits(i, error) ==
    /\ inv[i].pc = "awaiting"
    /\ phase' = "failed"
    /\ inv' = [inv EXCEPT ![i] = HandlerFailure(@, error)]
    /\ twin' = [twin EXCEPT ![i] = HandlerFailure(@, error)]
    /\ UNCHANGED <<apiKey, apiSecret, listed, signLog>>

\* The request of invocation i fails.
HttpFail(i, error) ==
    /\ inv[i].pc = "awaiting"
    /\ inv' = [inv EXCEPT ![i] = HandlerFailure(@, error)]
    /\ twin' = [twin EXCEPT ![i] = HandlerFailure(@, error)]
    /\ UNCHANGED <<phase, apiKey, apiSecret, listed, signLog>>

\* The transport has sent the outcome of the request in slot i: the slot
\* is free.
Return(i) ==
    /\ inv[i].pc = "done" \/ listed[i] # <<>>
    /\ inv' = [inv EXCEPT ![i] = Idle]
    /\ twin' = [twin EXCEPT ![i] = Idle]
    /\ listed' = [listed EXCEPT ![i] = <<>>]
    /\ UNCHANGED <<phase, apiKey, apiSecret, signLog>>

Next ==
    \/ Startup
    \/ \E i \in DOMAIN inv : ListTools(i)
    \/ \E i \in DOMAIN inv : CallTool(i)
    \/ \E i \in DOMAIN inv : \E data \in Responses(inv[i].name) : HttpRespond(i, data)
    \/ \E i \in DOMAIN inv, error \in HttpErrors : HttpFail(i, error)
    \/ \E i \in DOMAIN inv : Return(i)

Spec == Init /\ [][Next]_vars

----------------------------------------------------------------------------
(* The concurrent specification: the transport hands the running server    *)
(* requests while earlier ones await their HTTP response, one per slot.    *)
(* The callers' requests are drawn from a narrow domain in which the two   *)
(* argument mappings share no value.                                       *)

ConcNames == {"get_all_orders", "get_order_book"}
ConcArguments ==
    {Obj(<<KV("symbol", Str("BTCUSDT")), KV("limit", Num(7))>>),
     Obj(<<KV("limit", Num(5)), KV("symbol", Str("ETHUSDT"))>>)}
ConcErrors ==
    {[name |-> "AxiosError", message |-> "Request failed with status code 400"]}

InitConc ==
    /\ phase = "running"
    /\ apiKey = Str("key-1")
    /\ apiSecret = Str("secret-1")
    /\ inv = [i \in 1..MaxSlots |-> Idle]
    /\ twin = [i \in 1..MaxSlots |-> Idle]
    /\ listed = [i \in 1..MaxSlots |-> <<>>]
    /\ signLog = <<>>

NextConc ==
    \/ \E i \in DOMAIN inv : ListTools(i)
    \/ \E i \in DOMAIN inv : Invoke(i, ConcNames, ConcArguments)
    \/ \E i \in DOMAIN inv : \E data \in Responses(inv[i].name) : HttpRespond(i, data)
    \/ \E i \in DOMAIN inv, error \in ConcErrors : HttpFail(i, error)
    \/ \E i \in DOMAIN inv : Return(i)

ConcSpec == InitConc /\ [][NextConc]_vars

----------------------------------------------------------------------------
(* The signature specification: generateSignature applied to parameter     *)
(* mappings drawn from a bounded set, by a client whose secret is one of   *)
(* two; signLog is the sequence of the calls made.                         *)

SigSecrets == {Str("secret-1"), Str("secret-2")}
SigKeys == {"symbol", "limit"}
SigValues == {Undef, Null, Num(1), Str("1"), Str("1&limit=1")}
SigPairs == {KV(key, val) : key \in SigKeys, val \in SigValues}
SigParams == ObjectsUpTo(SigPairs, MaxArgs)

InitSig ==
    /\ phase = "running"
    /\ apiKey = Str("key-1")
    /\ apiSecret \in SigSecrets
    /\ inv = [i \in {1} |-> Idle]
    /\ twin = [i \in {1} |-> Idle]
    /\ listed = [i \in {1} |-> <<>>]
    /\ signLog = <<>>

\* One call of generateSignature by the client.
Sign ==
    /\ Len(signLog) < MaxSigned
    /\ \E params \in SigParams :
          signLog' = Append(signLog,
                            [params |-> params, secret |-> apiSecret,
                             signed |-> queryString(params),
                             digest |-> generateSignature(Self, params)])
    /\ UNCHANGED <<phase, apiKey, apiSecret, inv, twin, listed>>

\* The client is constructed anew with the other secret.
Rekey ==
    /\ Len(signLog) < MaxSigned
    /\ \E secret \in SigSecrets \ {apiSecret} : apiSecret' = secret
    /\ UNCHANGED <<phase, apiKey, inv, twin, listed, signLog>>

NextSig == Sign \/ Rekey

SigSpec == InitSig /\ [][NextSig]_vars

----------------------------------------------------------------------------
(* Properties.                                                             *)

\* `sub` occurs in `text`.
Contains(text, sub) ==
    \E j \in 1..(Len(text) - Len(sub) + 1) : SubSeq(text, j, j + Len(sub) - 1) = sub

HasError(result) == "isError" \in DOMAIN result /\ result.isError = TRUE
Text(result) == result.content[1].text

\* A result with one text item whose text is "Error: " and a message.
IsErrorResult(result) ==
    /\ HasError(result)
    /\ Len(result.content) = 1
    /\ result.content[1].type = "text"
    /\ Len(Text(result)) > Len("Error: ")
    /\ SubSeq(Text(result), 1, Len("Error: ")) = "Error: "

ArgKeysOf(rec) == Keys(Spread(rec.args))

\* C1: an invocation whose name is not a registered tool returns (it does
\* not throw) one result, flagged isError, whose text contains that name,
\* whatever its arguments.
C1_UnknownToolErrorResult ==
    \A i \in DOMAIN inv :
        (inv[i].pc # "idle" /\ inv[i].name \notin Tools) =>
            /\ inv[i].pc = "done"
            /\ inv[i].thrown = <<>>
            /\ inv[i].reqs = <<>>
            /\ Len(inv[i].results) = 1
            /\ IsErrorResult(inv[i].results[1])
            /\ Contains(Text(inv[i].results[1]), inv[i].name)

C1_Witness ==
    \E i \in DOMAIN inv :
        /\ inv[i].pc = "done"
        /\ inv[i].name = "get_balance"
        /\ inv[i].args.t = "object"
        /\ Len(inv[i].args.o) > 0

\* C2: whatever fails in an invocation (an unknown name, absent arguments,
\* the HTTP call, the reshaping of the response), the handler returns one
\* result flagged isError with a text message, and no invocation ever lets
\* an error through to the transport.
C2_EveryFailureIsAnErrorResult ==
    \A i \in DOMAIN inv :
        /\ inv[i].thrown = <<>>
        /\ inv[i].failure # "none" =>
              /\ inv[i].pc = "done"
              /\ Len(inv[i].results) = 1
              /\ IsErrorResult(inv[i].results[1])

C2_Witness ==
    \E i \in DOMAIN inv :
        /\ inv[i].failure = "reshape"
        /\ inv[i].name = "get_order_book"
        /\ inv[i].pc = "done"

\* C3: when BINANCE_API_KEY or BINANCE_API_SECRET is unset or empty, the
\* process never runs the server: no invocation is served and no HTTP
\* request is issued.
C3_NoStartWithoutCredentials ==
    (~Truthy(apiKey) \/ ~Truthy(apiSecret)) =>
        /\ phase # "running"
        /\ \A i \in DOMAIN inv : inv[i] = Idle

C3_Witness ==
    /\ phase = "failed"
    /\ Truthy(apiKey)
    /\ apiSecret = Str("")

\* C4: every invocation of a registered tool has issued exactly one HTTP
\* request when it returns, whatever the arguments (present, empty or
\* absent).
C4_ExactlyOneRequestPerInvocation ==
    \A i \in DOMAIN inv :
        (inv[i].pc = "done" /\ inv[i].name \in Tools) => Len(inv[i].reqs) = 1

\* C5: an invocation whose HTTP request failed has issued that one request
\* only and has returned exactly one result, an error result.
C5_FailedRequestOneErrorResult ==
    \A i \in DOMAIN inv :
        inv[i].failure = "http" =>
            /\ inv[i].pc = "done"
            /\ Len(inv[i].reqs) = 1
            /\ inv[i].thrown = <<>>
            /\ Len(inv[i].results) = 1
            /\ IsErrorResult(inv[i].results[1])

C5_Witness ==
    \E i \in DOMAIN inv :
        /\ inv[i].failure = "http"
        /\ inv[i].name = "place_order"
        /\ Len(inv[i].results) = 1

\* C6: an optional parameter of the tool's schema whose key is not among
\* the caller's arguments is not a key of the request's parameters.
C6_AbsentOptionalNotSent ==
    \A i \in DOMAIN inv :
        \A j \in 1..Len(inv[i].reqs) :
            \A key \in Optional(inv[i].name) :
                key \notin ArgKeysOf(inv[i]) => ~HasKey(inv[i].reqs[j].params, key)

C6_Witness ==
    \E i \in DOMAIN inv :
        /\ inv[i].name = "get_klines"
        /\ Len(inv[i].reqs) = 1
        /\ "symbol" \in ArgKeysOf(inv[i])
        /\ "limit" \notin ArgKeysOf(inv[i])

\* C7: every request of an account, trading or wallet tool carries a
\* timestamp and a signature parameter; no request of a market-data tool
\* carries either.
C7_PrivateSignedMarketUnsigned ==
    \A i \in DOMAIN inv :
        \A j \in 1..Len(inv[i].reqs) :
            LET p == inv[i].reqs[j].params
            IN  /\ inv[i].name \in PrivateTools =>
                      /\ HasKey(p, "timestamp") /\ ~Nullish(Get(p, "timestamp"))
                      /\ HasKey(p, "signature") /\ ~Nullish(Get(p, "signature"))
                /\ inv[i].name \in MarketTools =>
                      ~HasKey(p, "timestamp") /\ ~HasKey(p, "signature")

C7_Witness ==
    \E i \in DOMAIN inv :
        /\ inv[i].name \in MarketTools
        /\ Len(inv[i].reqs) = 1
        /\ {"timestamp", "signature"} \subseteq ArgKeysOf(inv[i])

SameKeys(p, q) == Len(p) = Len(q) /\ \A j \in 1..Len(p) : p[j].k = q[j].k
\* The places where the values of two such mappings differ.
Changed(p, q) == {j \in 1..Len(p) : p[j].v # q[j].v}

\* C9, as stated: two signed mappings that differ in the value of one
\* parameter only (same keys, same order, same secret) have different
\* signed strings and digests, for any two distinct values.
C9_AnyValueChangeChangesDigest ==
    \A a, b \in 1..Len(signLog) :
        (/\ signLog[a].secret = signLog[b].secret
         /\ SameKeys(signLog[a].params, signLog[b].params)
         /\ Cardinality(Changed(signLog[a].params, signLog[b].params)) = 1)
            => /\ signLog[a].signed # signLog[b].signed
               /\ signLog[a].digest # signLog[b].digest

\* C9, amended: two signed mappings that differ in the value of one
\* parameter only have different signed strings and digests exactly when
\* the two values differ in their string rendering.
C9_RenderedValueChangeChangesDigest ==
    \A a, b \in 1..Len(signLog) :
        (/\ signLog[a].secret = signLog[b].secret
         /\ SameKeys(signLog[a].params, signLog[b].params)
         /\ Cardinality(Changed(signLog[a].params, signLog[b].params)) = 1)
            => LET j == CHOOSE c \in Changed(signLog[a].params, signLog[b].params) : TRUE
                   differ == ToStr(signLog[a].params[j].v) # ToStr(signLog[b].params[j].v)
               IN  /\ (signLog[a].signed # signLog[b].signed) <=> differ
                   /\ (signLog[a].digest # signLog[b].digest) <=> differ

C9_Witness ==
    \E a, b \in 1..Len(signLog) :
        /\ signLog[a].secret = signLog[b].secret
        /\ SameKeys(signLog[a].params, signLog[b].params)
        /\ Len(signLog[a].params) = 2
        /\ Changed(signLog[a].params, signLog[b].params) = {2}
        /\ signLog[a].params[2].v = Null
        /\ signLog[b].params[2].v = Num(1)

\* A request as the exchange sees it, the value of its signature blanked.
Blind(req) ==
    [method |-> req.method, baseURL |-> req.baseURL, path |-> req.path,
     headers |-> req.headers,
     params |-> IF HasKey(req.params, "signature")
                THEN Set(req.params, "signature", Null) ELSE req.params]

\* C10: in a running server no request contains the secret in its URL, in
\* a header or in a parameter other than the signature, no result contains
\* it, and the run that differs in the secret only issues the same
\* requests up to the value of the signature and returns the same results.
C10_SecretNeverDisclosed ==
  [](phase = "running" =>
          \A i \in DOMAIN inv :
              /\ \A j \in 1..Len(inv[i].reqs) :
                    LET req == inv[i].reqs[j]
                    IN  /\ ~Contains(req.baseURL \o req.path, apiSecret.s)
                        /\ \A h \in 1..Len(req.headers) :
                              ~Contains(req.headers[h].k \o "=" \o ToStr(req.headers[h].v),
                                        apiSecret.s)
                        /\ \A q \in 1..Len(req.params) :
                              req.params[q].k # "signature" =>
                                  ~Contains(req.params[q].k \o "=" \o ToStr(req.params[q].v),
                                            apiSecret.s)
              /\ \A j \in 1..Len(inv[i].results) :
                    ~Contains(Text(inv[i].results[j]), apiSecret.s)
              /\ Len(twin[i].reqs) = Len(inv[i].reqs)
              /\ \A j \in 1..Len(inv[i].reqs) : Blind(twin[i].reqs[j]) = Blind(inv[i].reqs[j])
              /\ twin[i].results = inv[i].results
              /\ twin[i].thrown = inv[i].thrown)

C10_Witness ==
    \E i \in DOMAIN inv :
        /\ inv[i].name = "withdraw"
        /\ inv[i].pc = "done"
        /\ Len(inv[i].reqs) = 1
        /\ Len(inv[i].results) = 1
        /\ Get(inv[i].reqs[1].params, "signature") # Get(twin[i].reqs[1].params, "signature")

\* An invocation that was resumed by a response and whose method returned.
Served(rec) == rec.pc = "done" /\ rec.failure = "none"

\* The names the claim gives to positions 0 to 10 of a kline.
KlineFields ==
    <<"openTime", "open", "high", "low", "close", "volume", "closeTime",
      "quoteAssetVolume", "numberOfTrades", "takerBuyBaseAssetVolume",
      "takerBuyQuoteAssetVolume">>

\* C11: the result of get_klines is the sequence, as long as the response
\* and in its order, of the records whose field KlineFields[k + 1] is
\* position k of the response's element, the fields in this order.
C11_KlinesMappedByPosition ==
    \A i \in DOMAIN inv :
        (inv[i].name = "get_klines" /\ Served(inv[i])) =>
            LET rows == inv[i].resp.a
                expected ==
                    Arr([j \in 1..Len(rows) |->
                           Obj([k \in 1..Len(KlineFields) |->
                                  KV(KlineFields[k], rows[j].a[k])])])
            IN  /\ Len(inv[i].results) = 1
                /\ Text(inv[i].results[1]) = Stringify(expected, "")

C11_Witness ==
    \E i \in DOMAIN inv :
        /\ inv[i].name = "get_klines"
        /\ Served(inv[i])
        /\ inv[i].resp = Arr(<<KlineRow, KlineRow2>>)
        /\ Len(inv[i].results) = 1

\* C12: the result of get_order_book has the response's lastUpdateId, and
\* on each side (bids, asks) as many entries as that side of the response,
\* in its order, entry j being {price, quantity} of the pair j of the same
\* side.
C12_OrderBookMappedBySide ==
    \A i \in DOMAIN inv :
        (inv[i].name = "get_order_book" /\ Served(inv[i])) =>
            LET book == inv[i].resp.o
                side(key) ==
                    LET pairs == Get(book, key).a
                    IN  Arr([j \in 1..Len(pairs) |->
                               Obj(<<KV("price", pairs[j].a[1]),
                                     KV("quantity", pairs[j].a[2])>>)])
                expected ==
                    Obj(<<KV("lastUpdateId", Get(book, "lastUpdateId")),
                          KV("bids", side("bids")), KV("asks", side("asks"))>>)
            IN  /\ Len(inv[i].results) = 1
                /\ Text(inv[i].results[1]) = Stringify(expected, "")

C12_Witness ==
    \E i \in DOMAIN inv :
        /\ inv[i].name = "get_order_book"
        /\ Served(inv[i])
        /\ inv[i].resp = Book
        /\ Len(Get(Book.o, "bids").a) # Len(Get(Book.o, "asks").a)
        /\ Len(inv[i].results) = 1

\* C13: an invocation that has ended has returned one result; the result
\* is flagged isError exactly when something failed in the invocation; the
\* result of an invocation in which nothing failed has the one member
\* content, of one item of type text, whose text is JSON.stringify of the
\* value its client method returned.
C13_SuccessIsOneTextItem ==
    \A i \in DOMAIN inv :
        inv[i].pc = "done" =>
            /\ Len(inv[i].results) = 1
            /\ HasError(inv[i].results[1]) <=> inv[i].failure # "none"
            /\ inv[i].failure = "none" =>
                  LET result == inv[i].results[1]
                      returned == Reshape(inv[i].name, inv[i].resp)
                  IN  /\ DOMAIN result = {"content"}
                      /\ Len(result.content) = 1
                      /\ result.content[1].type = "text"
                      /\ returned.ok
                      /\ result.content[1].text = Stringify(returned.value, "")

C13_Witness ==
    \E i \in DOMAIN inv :
        /\ inv[i].name = "get_account"
        /\ Served(inv[i])
        /\ inv[i].resp = Price
        /\ ~HasError(inv[i].results[1])

\* The names a sequence of descriptors lists.
ListedNames(tools) == {tools[j].name : j \in 1..Len(tools)}
\* Every name of `names` has exactly one descriptor in `tools`, no other
\* name has one, and no description is empty.
ListsExactly(tools, names) ==
    /\ ListedNames(tools) = names
    /\ \A name \in names : Cardinality({j \in 1..Len(tools) : tools[j].name = name}) = 1
    /\ \A j \in 1..Len(tools) : tools[j].description # ""

\* C14: a list-tools response has exactly one descriptor, its description
\* not empty, per case of the call-tool switch and no other descriptor; an
\* invocation is answered with Unknown tool exactly when its name is not
\* listed; the committed build lists exactly the cases of its own switch.
C14_ListingMatchesDispatch ==
    /\ \A i \in DOMAIN listed :
          listed[i] # <<>> => ListsExactly(listed[i][1].tools, Tools)
    /\ \A i \in DOMAIN inv :
          inv[i].pc = "done" =>
              (inv[i].failure = "unknown" <=> inv[i].name \notin ListedNames(ListToolsResult.tools))
    /\ ListsExactly(BuiltDescriptors, BuiltTools)

C14_Witness ==
    \E i \in DOMAIN listed :
        /\ listed[i] # <<>>
        /\ Len(listed[i][1].tools) = Cardinality(Tools)
        /\ inv[i].pc = "idle"

\* C15: the step in which the request of an invocation fails leaves the
\* server running with its credentials, ends that invocation with one
\* error result, lets no error through and touches no other invocation;
\* the failed invocation then only leaves its slot as it was before it;
\* and while failed invocations are there, a request that arrives is
\* started, and one that gets its response is resumed, by the handler
\* from its own inputs alone.
C15_FailedRequestNotFatal ==
    [][\A i \in DOMAIN inv :
          /\ (inv[i].pc = "awaiting" /\ inv'[i].failure = "http") =>
                /\ phase' = "running" /\ apiKey' = apiKey /\ apiSecret' = apiSecret
                /\ inv'[i].pc = "done"
                /\ inv'[i].thrown = <<>>
                /\ Len(inv'[i].results) = 1
                /\ IsErrorResult(inv'[i].results[1])
                /\ \A k \in DOMAIN inv \ {i} : inv'[k] = inv[k]
          /\ (inv[i].failure = "http" /\ inv'[i] # inv[i]) =>
                inv'[i] = Idle /\ phase' = "running"
          /\ (\E k \in DOMAIN inv : inv[k].failure = "http") =>
                /\ (inv[i].pc = "idle" /\ inv'[i].pc # "idle") =>
                      inv'[i] = HandlerStart(Self, inv'[i].name, inv'[i].args, inv'[i].now)
                /\ (inv[i].pc = "awaiting" /\ inv'[i].pc = "done"
                                              /\ inv'[i].failure # "http") =>
                      inv'[i] = HandlerResponse(inv[i], inv'[i].resp)
      ]_vars

C15_Witness ==
    \E i, k \in DOMAIN inv :
        /\ i # k
        /\ inv[i].name = "get_all_orders"
        /\ inv[i].failure = "http"
        /\ IsErrorResult(inv[i].results[1])
        /\ Served(inv[k])

\* C16: whatever the other slots hold, every parameter of an invocation's
\* request is one of its own arguments, its own clock reading as timestamp
\* or, last, the signature of the parameters before it; the request is the
\* one the handler builds from the invocation's name, arguments and clock
\* reading alone; and the result of an invocation that got a response is
\* the one the handler builds from that response alone.
C16_InvocationsIndependent ==
    \A i \in DOMAIN inv :
        inv[i].pc # "idle" =>
            LET rec == inv[i]
                own == HandlerStart(Self, rec.name, rec.args, rec.now)
            IN  /\ Len(rec.reqs) = 1
                /\ LET p == rec.reqs[1].params
                   IN  \A q \in 1..Len(p) :
                           \/ p[q].k = "timestamp" /\ p[q].v = rec.now
                           \/ /\ p[q].k = "signature"
                              /\ q = Len(p)
                              /\ p[q].v = generateSignature(Self, SubSeq(p, 1, q - 1))
                           \/ /\ HasKey(Spread(rec.args), p[q].k)
                              /\ p[q].v = Get(Spread(rec.args), p[q].k)
                /\ rec.reqs = own.reqs
                /\ (rec.pc = "done" /\ rec.failure # "http") =>
                      rec.results = HandlerResponse(own, rec.resp).results

C16_Witness ==
    \E i, k \in DOMAIN inv :
        /\ inv[i].name = "get_all_orders" /\ inv[k].name = "get_all_orders"
        /\ inv[i].pc = "awaiting"
        /\ Served(inv[k])
        /\ inv[i].args # inv[k].args
        /\ inv[i].now # inv[k].now

\* C17: an invocation of get_24hr_ticker or of get_open_orders whose
\* arguments have no symbol has issued one request, without a symbol
\* parameter, and, once the response is there, has returned it serialized
\* as a success result.
C17_NoSymbolMeansAllSymbols ==
    \A i \in DOMAIN inv :
        (/\ inv[i].name \in {"get_24hr_ticker", "get_open_orders"}
         /\ inv[i].pc # "idle"
         /\ "symbol" \notin ArgKeysOf(inv[i])) =>
            /\ Len(inv[i].reqs) = 1
            /\ ~HasKey(inv[i].reqs[1].params, "symbol")
            /\ (inv[i].pc = "done" /\ inv[i].failure # "http") =>
                  /\ Len(inv[i].results) = 1
                  /\ ~HasError(inv[i].results[1])
                  /\ Text(inv[i].results[1]) = Stringify(inv[i].resp, "")

\* The tools whose client method signs { ...arguments, timestamp }.
PassThroughTools ==
    {"get_my_trades", "place_order", "cancel_order", "get_deposit_address", "withdraw"}

\* The order in which the client method of every other private tool
\* inserts the keys of the mapping it signs.
FixedOrder(name) ==
    CASE name = "get_account" -> <<"timestamp">>
      [] name = "get_open_orders" -> <<"timestamp", "symbol">>
      [] name = "get_all_orders" ->
           <<"symbol", "timestamp", "orderId", "startTime", "endTime", "limit">>
      [] name = "cancel_all_orders" -> <<"symbol", "timestamp">>
      [] name = "get_order" -> <<"symbol", "timestamp", "orderId", "clientOrderId">>
      [] name \in {"get_deposit_history", "get_withdraw_history"} ->
           <<"timestamp", "coin", "status", "startTime", "endTime", "offset", "limit">>
      [] OTHER -> <<>>

\* C18, as stated: the string signed for a request of a private tool is
\* the caller-supplied parameters of the request, in their order, followed
\* by the injected timestamp as the last pair.
C18_CallerParamsFirstTimestampLast ==
    \A i \in DOMAIN inv :
        \A j \in 1..Len(inv[i].reqs) :
            inv[i].name \in PrivateTools =>
                LET callers == SelectSeq(inv[i].reqs[j].params,
                                         LAMBDA pr : pr.k \notin {"timestamp", "signature"})
                IN  inv[i].reqs[j].signed =
                        Str(queryString(Append(callers, KV("timestamp", inv[i].now))))

\* C18, amended: the string signed for a request of a private tool lists
\* the parameters in the order the client method inserts them.  A
\* pass-through tool signs the caller's parameters in the caller's order
\* and the injected timestamp last, unless the caller supplied a timestamp
\* key, which keeps its place and takes the injected value.  Every other
\* private tool signs the parameters it sends in the fixed order of its
\* method, in which the timestamp is first (get_open_orders, the two
\* history tools) or second after symbol (get_all_orders, get_order,
\* cancel_all_orders), before the optional parameters.
C18_SignedInInsertionOrder ==
    \A i \in DOMAIN inv :
        \A j \in 1..Len(inv[i].reqs) :
            inv[i].name \in PrivateTools =>
                LET a == Spread(inv[i].args)
                    p == inv[i].reqs[j].params
                    stamp == KV("timestamp", inv[i].now)
                    passed ==
                        IF HasKey(a, "timestamp")
                        THEN [q \in 1..Len(a) |-> IF a[q].k = "timestamp" THEN stamp ELSE a[q]]
                        ELSE Append(a, stamp)
                    sent == SelectSeq(FixedOrder(inv[i].name), LAMBDA key : HasKey(p, key))
                    fixed ==
                        [q \in 1..Len(sent) |->
                            IF sent[q] = "timestamp" THEN stamp ELSE KV(sent[q], Get(a, sent[q]))]
                IN  inv[i].reqs[j].signed =
                        Str(queryString(IF inv[i].name \in PassThroughTools
                                        THEN passed ELSE fixed))

C18_Witness ==
    \E i \in DOMAIN inv :
        /\ inv[i].name = "get_open_orders"
        /\ Len(inv[i].reqs) = 1
        /\ inv[i].now = Num(1)
        /\ inv[i].reqs[1].signed = Str("timestamp=1&symbol=BTCUSDT")

\* C19: the parameters of a request of a private tool are the mapping that
\* was signed, pair by pair in its order, followed by the signature as the
\* last key.
C19_SentIsSignedPlusSignature ==
    \A i \in DOMAIN inv :
        \A j \in 1..Len(inv[i].reqs) :
            inv[i].name \in PrivateTools =>
                LET p == inv[i].reqs[j].params
                    before == SubSeq(p, 1, Len(p) - 1)
                IN  /\ Len(p) > 0
                    /\ p[Len(p)].k = "signature"
                    /\ ~HasKey(before, "signature")
                    /\ inv[i].reqs[j].signed = Str(queryString(before))
                    /\ p[Len(p)].v = generateSignature(Self, before)

\* C20: the string signed for a request of a private tool has no pair of
\* key signature, whatever arguments the caller supplied.
C20_NoSignaturePairSigned ==
    \A i \in DOMAIN inv :
        \A j \in 1..Len(inv[i].reqs) :
            inv[i].name \in PrivateTools =>
                LET signed == inv[i].reqs[j].signed.s
                IN  /\ ~Contains("&" \o signed, "&signature=")
                    /\ signed = queryString(SelectSeq(inv[i].reqs[j].params,
                                                      LAMBDA pr : pr.k # "signature"))

\* C21, as stated: the result of every invocation that got a response, of
\* any tool but get_klines, is the serialization of the response body.
C21_AllButKlinesUnchanged ==
    \A i \in DOMAIN inv :
        (Served(inv[i]) /\ inv[i].name # "get_klines") =>
            /\ Len(inv[i].results) = 1
            /\ Text(inv[i].results[1]) = Stringify(inv[i].resp, "")

\* C21, amended: the step in which an invocation of any tool but
\* get_klines and get_order_book is resumed by a response ends it with one
\* result, not flagged, whose text is the serialization of that response
\* body.
C21_BodyReturnedUnchanged ==
    [][\A i \in DOMAIN inv :
          (/\ inv[i].pc = "awaiting"
           /\ inv'[i].pc = "done"
           /\ inv'[i].failure # "http"
           /\ inv[i].name \notin {"get_klines", "get_order_book"}) =>
              /\ inv'[i].failure = "none"
              /\ Len(inv'[i].results) = 1
              /\ ~HasError(inv'[i].results[1])
              /\ Text(inv'[i].results[1]) = Stringify(inv'[i].resp, "")
      ]_vars

C21_Witness ==
    \E i \in DOMAIN inv :
        /\ inv[i].name = "get_recent_trades"
        /\ Served(inv[i])
        /\ inv[i].resp = Price
        /\ Text(inv[i].results[1]) = Stringify(Price, "")

\* The HTTP method the claim gives every tool.
MethodOf(name) ==
    CASE name \in {"place_order", "withdraw"} -> "POST"
      [] name \in {"cancel_order", "cancel_all_orders"} -> "DELETE"
      [] OTHER -> "GET"

\* C22: the step in which an invocation of a registered tool starts issues
\* requests only to the base URL, with the method MethodOf gives the tool
\* and with the path the tool's method requests when it is called with no
\* arguments at all: neither depends on the arguments or on the clock.
C22_MethodAndPathFixedByTool ==
    [][\A i \in DOMAIN inv :
          (inv[i].pc = "idle" /\ inv'[i].pc # "idle" /\ inv'[i].name \in Tools) =>
              \A j \in 1..Len(inv'[i].reqs) :
                  LET req == inv'[i].reqs[j]
                      bare == ClientCall(Self, inv'[i].name, Undef, Num(0))
                  IN  /\ req.baseURL = baseUrl
                      /\ req.method = MethodOf(inv'[i].name)
                      /\ req.path = bare.path
                      /\ req.method = bare.method
      ]_vars

C22_Witness ==
    \E i \in DOMAIN inv :
        /\ inv[i].name = "cancel_order"
        /\ Len(inv[i].reqs) = 1
        /\ inv[i].reqs[1].method = "DELETE"
        /\ inv[i].reqs[1].path = "/api/v3/order"
        /\ Len(Spread(inv[i].args)) = MaxArgs

C24_ErrorTextIsUnderlyingMessage ==
    [][\A i \in DOMAIN inv :
          (inv[i].pc = "awaiting" /\ inv'[i].failure = "http") =>
              /\ Len(inv'[i].caught) = 1
              /\ inv'[i].caught[1] \in HttpErrors
              /\ Len(inv'[i].results) = 1
              /\ LET message == inv'[i].caught[1].message
                     text == Text(inv'[i].results[1])
                 IN  /\ message # "" => text = "Error: " \o message
                     /\ message = "" <=> text = "Error: Unknown error"
      ]_vars

C24_Witness ==
    \E i \in DOMAIN inv :
        /\ inv[i].failure = "http"
        /\ inv[i].caught[1].message = ""
        /\ Text(inv[i].results[1]) = "Error: Unknown error"

\* C25: every optional parameter of the tool's schema that the caller
\* supplied with a value other than undefined and null, the number 0
\* included, is a parameter of the request, with that value.
C25_SuppliedOptionalIsSent ==
    \A i \in DOMAIN inv :
        \A j \in 1..Len(inv[i].reqs) :
            \A key \in Optional(inv[i].name) \cap ArgKeysOf(inv[i]) :
                LET val == Get(Spread(inv[i].args), key)
                IN  ~Nullish(val) =>
                        /\ HasKey(inv[i].reqs[j].params, key)
                        /\ Get(inv[i].reqs[j].params, key) = val

\* C26: every key of a request's parameters is a property the tool's
\* schema declares, or timestamp or signature.
C26_OnlyDeclaredKeysSent ==
    \A i \in DOMAIN inv :
        \A j \in 1..Len(inv[i].reqs) :
            Keys(inv[i].reqs[j].params) \subseteq
                Properties(inv[i].name) \cup {"timestamp", "signature"}

\* C27: no mapping that is signed or sent has a key whose value is undefined
\* or null, and no signed string has a pair such as symbol=undefined.
C27_NoNullishParameter ==
    \A i \in DOMAIN inv :
        \A j \in 1..Len(inv[i].reqs) :
            /\ \A p \in 1..Len(inv[i].reqs[j].params) :
                   ~Nullish(inv[i].reqs[j].params[p].v)
            /\ inv[i].reqs[j].signed.t = "string" =>
                   /\ ~Contains(inv[i].reqs[j].signed.s, "=undefined")
                   /\ ~Contains(inv[i].reqs[j].signed.s, "=null")

\* C28: the step in which an invocation of a private tool starts issues one
\* request whose parameters have one timestamp key, its value the clock
\* reading of the invocation, and whose signed string has the pair
\* timestamp=<that reading>; a timestamp the caller wrote in the arguments
\* is neither sent nor signed.
C28_TimestampIsClockReading ==
    [][\A i \in DOMAIN inv :
          (inv[i].pc = "idle" /\ inv'[i].pc = "awaiting" /\ inv'[i].name \in PrivateTools) =>
              /\ Len(inv'[i].reqs) = 1
              /\ inv'[i].now \in Times
              /\ LET req == inv'[i].reqs[1]
                     given == Get(Spread(inv'[i].args), "timestamp")
                 IN  /\ Cardinality({p \in 1..Len(req.params) : req.params[p].k = "timestamp"}) = 1
                     /\ Get(req.params, "timestamp") = inv'[i].now
                     /\ req.signed.t = "string"
                     /\ Contains(req.signed.s, "timestamp=" \o ToStr(inv'[i].now))
                     /\ (HasKey(Spread(inv'[i].args), "timestamp") /\ given # inv'[i].now) =>
                            /\ \A p \in 1..Len(req.params) : req.params[p] # KV("timestamp", given)
                            /\ ~Contains(req.signed.s, "timestamp=" \o ToStr(given))
      ]_vars

C28_Witness ==
    \E i \in DOMAIN inv :
        /\ inv[i].name = "place_order"
        /\ inv[i].pc = "awaiting"
        /\ Get(Spread(inv[i].args), "timestamp") = Num(7)
        /\ Len(inv[i].reqs) = 1
        /\ Get(inv[i].reqs[1].params, "timestamp") = inv[i].now
        /\ inv[i].reqs[1].signed = Str("timestamp=" \o ToStr(inv[i].now))

\* C29: two calls of generateSignature with different parameter mappings
\* (different keys, values or order) never sign the same string, and under
\* one secret never yield the same digest.
C29_SerializationUnambiguous ==
    \A a, b \in 1..Len(signLog) :
        signLog[a].params # signLog[b].params =>
            /\ signLog[a].signed # signLog[b].signed
            /\ signLog[a].secret = signLog[b].secret =>
                   signLog[a].digest # signLog[b].digest

----------------------------------------------------------------------------
(* The liveness specification: the concurrent server under the assumption  *)
(* that every HTTP request eventually completes, with a response or with   *)
(* a failure.  The requests are drawn from a domain that covers an         *)
(* unknown tool, a body passed through and a body reshaped.                *)

LiveNames == {"get_price", "get_order_book", "get_balance"}
LiveArguments == {Obj(<<KV("symbol", Str("BTCUSDT"))>>)}

\* The request of invocation i completes.
Complete(i) ==
    \/ \E data \in Responses(inv[i].name) : HttpRespond(i, data)
    \/ \E error \in ConcErrors : HttpFail(i, error)

NextLive ==
    \/ \E i \in DOMAIN inv : ListTools(i)
    \/ \E i \in DOMAIN inv : Invoke(i, LiveNames, LiveArguments)
    \/ \E i \in DOMAIN inv : \E data \in Responses(inv[i].name) : HttpRespond(i, data)
    \/ \E i \in DOMAIN inv, error \in ConcErrors : HttpFail(i, error)
    \/ \E i \in DOMAIN inv : Return(i)

LiveSpec ==
    InitConc /\ [][NextLive]_vars /\ \A i \in 1..MaxSlots : WF_vars(Complete(i))

\* C30: an invocation that awaits its request eventually ends with exactly
\* one result, a success payload or an error-flagged one, and nothing
\* thrown; no invocation ever holds more than one result; and the request
\* of an awaiting invocation can complete whatever the other slots hold.
C30_EveryInvocationReturnsOnce ==
    /\ \A i \in 1..MaxSlots :
           (inv[i].pc = "awaiting") ~>
               (inv[i].pc = "done" /\ Len(inv[i].results) = 1 /\ inv[i].thrown = <<>>)
    /\ [](\A i \in 1..MaxSlots :
             /\ Len(inv[i].results) <= 1
             /\ inv[i].pc = "done" => (Len(inv[i].results) = 1 /\ inv[i].thrown = <<>>)
             /\ inv[i].pc = "awaiting" =>
                    /\ inv[i].results = <<>>
                    /\ ENABLED (\E data \in Responses(inv[i].name) : HttpRespond(i, data))
                    /\ ENABLED (\E error \in ConcErrors : HttpFail(i, error)))

C30_Witness ==
    /\ inv[1].pc = "awaiting"
    /\ inv[1].name = "get_price"
    /\ inv[2].pc = "done"
    /\ inv[2].name = "get_order_book"
    /\ Len(inv[2].results) = 1
    /\ HasError(inv[2].results[1])
    /\ inv[2].failure = "reshape"

=============================================================================
